---- MODULE Spec2Model ----
(***************************************************************************)
(* depinj-express: binding of a dependency-injection container's request   *)
(* scopes to express handlers (src/src/injected-handler.ts and             *)
(* src/src/injected-middleware.ts).                                        *)
(*                                                                         *)
(* JavaScript runs each handler to completion up to its first await, so    *)
(* one adapter invocation (scope acquisition, listener registration,       *)
(* service lookup, shape classification and the synchronous part of the    *)
(* wrapped handler) is one action.  The suspension points are the wrapped  *)
(* handler's own await (BodyResume) and the adapter's await on the         *)
(* handler's promise (AdapterResume).  The host fires 'finish' (Finish).   *)
(***************************************************************************)
EXTENDS Integers, Sequences, FiniteSets

\* ----------------------------------------------------------------- bounds
\* The number of adapter invocations the pipeline makes: with every kind of
\* registration (Spec), and in a longer chain of valid middlewares (ChainSpec).
MaxInv == 2
MaxChain == 3

\* The requests in flight; the response of a request is named like it.
Requests == {"A", "B"}
\* A scope is created by an adapter invocation at most once per invocation.
MaxScopes == IF MaxChain > MaxInv THEN MaxChain ELSE MaxInv
ScopeIds == 1..MaxScopes
NoScope == 0

\* Error objects the host hands to an error handler.
Errors == {"errA", "errB"}
NoError == "none"
Undefined == "undefined"

\* ------------------------------------------------------------ registrations
\* The services the container knows, by registered name, and the shape of the
\* instance getService returns for each:
\*   "method"             an object exposing a callable handle member
\*   "function"           a function (README's incrementHandler)
\*   "functionWithHandle" a function that also carries a callable handle property
\*   "plain"              an object with no handle member (the Counter service)
\*   "null"               a factory that returns null
ServiceShape(name) ==
  CASE name = "IncrementingMiddleware" -> "method"
    [] name = "ErrorLoggingMiddleware" -> "method"
    [] name = "SlowMiddleware"         -> "method"
    [] name = "incrementHandler"       -> "function"
    [] name = "hybridHandler"          -> "functionWithHandle"
    [] name = "Counter"                -> "plain"
    [] name = "Nothing"                -> "null"
    [] OTHER                           -> "unregistered"

Registered == {"IncrementingMiddleware", "ErrorLoggingMiddleware", "SlowMiddleware",
               "incrementHandler", "hybridHandler", "Counter", "Nothing"}
ServiceNames == Registered \cup {"Unregistered"}

\* Classes, which toInjectedMiddleware also accepts as a type reference.
TypeRefs == {"IncrementingMiddleware", "ErrorLoggingMiddleware", "SlowMiddleware"}

StringIdent(name) == [kind |-> "string", name |-> name]
TypeIdent(name) == [kind |-> "type", name |-> name]

\* What the application builds its adapters with.
HandlerNames == ServiceNames \ {"ErrorLoggingMiddleware"}
ErrorHandlerNames == {"ErrorLoggingMiddleware", "hybridHandler", "Counter"}
MiddlewareIdents ==
  {TypeIdent(n) : n \in {"IncrementingMiddleware"}}
    \cup {StringIdent(n) : n \in {"IncrementingMiddleware", "hybridHandler", "incrementHandler"}}

\* --------------------------------------------------------- wrapped handlers
\* What the body of a registered handler does, per function value
\* (instance name, member): incr - increments the scope's Counter;
\* log - calls logger.error(<first argument>, 'error message');
\* nextPos - the position of its continuation parameter;
\* suspends - awaits before calling the continuation;
\* needsThis - reads its dependencies through this.
Body(name, member) ==
  CASE name = "IncrementingMiddleware" /\ member = "handle" ->
         [incr |-> TRUE, log |-> FALSE, nextPos |-> 3, suspends |-> FALSE, needsThis |-> TRUE]
    [] name = "ErrorLoggingMiddleware" /\ member = "handle" ->
         [incr |-> FALSE, log |-> TRUE, nextPos |-> 4, suspends |-> FALSE, needsThis |-> TRUE]
    [] name = "SlowMiddleware" /\ member = "handle" ->
         [incr |-> FALSE, log |-> FALSE, nextPos |-> 3, suspends |-> TRUE, needsThis |-> FALSE]
    [] name = "incrementHandler" /\ member = "self" ->
         [incr |-> TRUE, log |-> FALSE, nextPos |-> 3, suspends |-> FALSE, needsThis |-> FALSE]
    [] name = "hybridHandler" /\ member = "self" ->
         [incr |-> TRUE, log |-> FALSE, nextPos |-> 3, suspends |-> FALSE, needsThis |-> FALSE]
    [] OTHER ->
         [incr |-> FALSE, log |-> FALSE, nextPos |-> 3, suspends |-> FALSE, needsThis |-> FALSE]

\* Argument values: the request, the response, the continuation of invocation i.
ReqArg(r) == <<"req", r>>
ResArg(r) == <<"res", r>>
NextArg(i) == <<"next", i>>
ErrArg(e) == <<"error", e>>

IsNextArg(args, pos) == pos <= Len(args) /\ args[pos][1] = "next"

VARIABLES
  scopeOf,    \* container: request context -> its scope (NoScope: none yet)
  nScopes,    \* container: number of scopes created so far
  ended,      \* container: the scopes whose teardown has taken effect
  endCalls,   \* scope -> number of times its endScope was invoked
  counter,    \* scope -> value of that scope's Counter service
  listeners,  \* response -> the 'finish' listeners registered on it, in order
  finished,   \* response -> whether its 'finish' event has fired
  invs,       \* the adapter invocations made so far, in order
  built       \* the adapters the application has built

vars == <<scopeOf, nScopes, ended, endCalls, counter, listeners, finished, invs, built>>

\* The handler a call of toInjectedHandler ("handler"), toInjectedErrorHandler
\* ("error") or toInjectedMiddleware ("middleware") returns for an identifier.
Adapter(kind, ident) == [kind |-> kind, ident |-> ident]

\* Every adapter the application routes requests through.
AppAdapters ==
  {Adapter("handler", StringIdent(n)) : n \in HandlerNames}
    \cup {Adapter("error", StringIdent(n)) : n \in ErrorHandlerNames}
    \cup {Adapter("middleware", d) : d \in MiddlewareIdents}

\* The state before the application has built any adapter.
Unbuilt ==
  /\ scopeOf = [r \in Requests |-> NoScope]
  /\ nScopes = 0
  /\ ended = {}
  /\ endCalls = [s \in ScopeIds |-> 0]
  /\ counter = [s \in ScopeIds |-> 0]
  /\ listeners = [r \in Requests |-> <<>>]
  /\ finished = [r \in Requests |-> FALSE]
  /\ invs = <<>>
  /\ built = {}

Init ==
  /\ scopeOf = [r \in Requests |-> NoScope]
  /\ nScopes = 0
  /\ ended = {}
  /\ endCalls = [s \in ScopeIds |-> 0]
  /\ counter = [s \in ScopeIds |-> 0]
  /\ listeners = [r \in Requests |-> <<>>]
  /\ finished = [r \in Requests |-> FALSE]
  /\ invs = <<>>
  /\ built = AppAdapters

\* ------------------------------------------------------------ the container
\* (depinj-js, an external collaborator: modelled from its interface)

Inst(name, scope) == [name |-> name, scope |-> scope]
NoThis == Inst(Undefined, NoScope)

NoErr == [type |-> "none", name |-> ""]
ServiceNotFound(name) == [type |-> "ServiceNotFound", name |-> name]
\* A TypeError raised by the runtime; its message names no identifier.
TypeError == [type |-> "TypeError", name |-> ""]

\* injector.createScope(context): the scope bound to the context, created on
\* first use.  Once a context's scope has been torn down the interface does not
\* say whether the same (ended) scope or a new one is handed out: `fresh`
\* chooses.
createScope(context, fresh) ==
  IF scopeOf[context] # NoScope /\ (scopeOf[context] \notin ended \/ ~fresh)
  THEN scopeOf[context]
  ELSE nScopes + 1

\* The choices createScope has for request r: only a torn-down scope leaves one.
FreshChoices(r) == IF scopeOf[r] \in ended THEN BOOLEAN ELSE {FALSE}

\* scoped.getService(name): the instance registered under the name, resolved
\* in the scope, or ServiceNotFound.
getService(scoped, name) ==
  IF name \in Registered
  THEN [ok |-> TRUE, inst |-> Inst(name, scoped), error |-> NoErr]
  ELSE [ok |-> FALSE, inst |-> NoThis, error |-> ServiceNotFound(name)]

\* ------------------------------------------------------------------ the core

NoHandler == [callee |-> NoThis, member |-> "none", this |-> NoThis, bound |-> FALSE]

\* A core that keys every scope by one shared context object.
ScopeContext_Shared(request, response) == "A"

\* The context the scope is keyed by: createScope(request).
ScopeContext(request, response) == request

\* A core that registers no teardown listener.
ListenersAfterBind_Skip(registered, scoped) == registered

\* A core that registers the teardown once per scope and response.
ListenersAfterBind_Dedup(registered, scoped) ==
  IF \E k \in 1..Len(registered) : registered[k] = scoped
  THEN registered
  ELSE Append(registered, scoped)

\* response.on('finish', scoped.endScope.bind(scoped)): one more listener,
\* bound to the scope, whatever is registered already.
ListenersAfterBind(registered, scoped) == Append(registered, scoped)

\* A core that passes endScope() instead of the bound function: the scope
\* is torn down as the listener is registered.
TeardownsAtBind_Eager(scoped) == {scoped}

\* The scopes whose endScope runs by registering the listener: none, bind
\* makes a function and does not call it.
TeardownsAtBind(scoped) == {}

\* The error thrown for an instance that is no valid middleware; its message
\* quotes the name it was looked up by.
InvalidHandlerShape(middlewareName) == [type |-> "InvalidHandlerShape", name |-> middlewareName]

\* A core that looks for a handle member before it asks whether the instance
\* is a function.
Classify_HandleFirst(inst, middlewareName) ==
  LET shape == ServiceShape(inst.name) IN
  CASE shape = "null" ->
         [ok |-> FALSE, error |-> TypeError, handler |-> NoHandler]
    [] shape \in {"method", "functionWithHandle"} ->
         [ok |-> TRUE, error |-> NoErr,
          handler |-> [callee |-> inst, member |-> "handle", this |-> inst, bound |-> TRUE]]
    [] shape = "function" ->
         [ok |-> TRUE, error |-> NoErr,
          handler |-> [callee |-> inst, member |-> "self", this |-> NoThis, bound |-> FALSE]]
    [] OTHER ->
         [ok |-> FALSE, error |-> InvalidHandlerShape(middlewareName), handler |-> NoHandler]

\* A core that returns scopedHandler.handle without binding it.
Classify_Unbound(inst, middlewareName) ==
  LET shape == ServiceShape(inst.name) IN
  CASE shape \in {"function", "functionWithHandle"} ->
         [ok |-> TRUE, error |-> NoErr,
          handler |-> [callee |-> inst, member |-> "self", this |-> NoThis, bound |-> FALSE]]
    [] shape = "null" ->
         [ok |-> FALSE, error |-> TypeError, handler |-> NoHandler]
    [] shape = "method" ->
         [ok |-> TRUE, error |-> NoErr,
          handler |-> [callee |-> inst, member |-> "handle", this |-> NoThis, bound |-> FALSE]]
    [] OTHER ->
         [ok |-> FALSE, error |-> InvalidHandlerShape(middlewareName), handler |-> NoHandler]

\* Lines 109-119 of getHandler: a function is returned as it is; an object with
\* a callable handle gives handle bound to the object; reading .handle of null
\* throws; anything else is an invalid middleware.
Classify(inst, middlewareName) ==
  LET shape == ServiceShape(inst.name) IN
  CASE shape \in {"function", "functionWithHandle"} ->
         [ok |-> TRUE, error |-> NoErr,
          handler |-> [callee |-> inst, member |-> "self", this |-> NoThis, bound |-> FALSE]]
    [] shape = "null" ->
         [ok |-> FALSE, error |-> TypeError, handler |-> NoHandler]
    [] shape = "method" ->
         [ok |-> TRUE, error |-> NoErr,
          handler |-> [callee |-> inst, member |-> "handle", this |-> inst, bound |-> TRUE]]
    [] OTHER ->
         [ok |-> FALSE, error |-> InvalidHandlerShape(middlewareName), handler |-> NoHandler]

\* A getHandler that looks the service up and classifies it first and
\* registers the teardown listener only for a handler it can return.
getHandler_ResolveFirst(middlewareName, request, response, fresh) ==
  LET scoped == createScope(ScopeContext(request, response), fresh)
      found == getService(scoped, middlewareName)
      shaped == Classify(found.inst, middlewareName)
      resolved == found.ok /\ shaped.ok
  IN  [scope |-> scoped,
       listeners |-> IF resolved THEN ListenersAfterBind(listeners[response], scoped)
                     ELSE listeners[response],
       torn |-> {},
       ok |-> resolved,
       error |-> IF found.ok THEN shaped.error ELSE found.error,
       handler |-> IF resolved THEN shaped.handler ELSE NoHandler,
       steps |-> IF resolved THEN <<"createScope", "getService", "classify", "on">>
                 ELSE IF found.ok THEN <<"createScope", "getService", "classify">>
                 ELSE <<"createScope", "getService">>]

\* getHandler(injector, middlewareName, request, response): what it acquires,
\* registers and returns or throws, with the steps it took in order.
getHandler(middlewareName, request, response, fresh) ==
  LET scoped == createScope(ScopeContext(request, response), fresh)
      bound == ListenersAfterBind(listeners[response], scoped)
      torn == TeardownsAtBind(scoped)
      found == getService(scoped, middlewareName)
      shaped == Classify(found.inst, middlewareName)
  IN  IF ~found.ok
      THEN [scope |-> scoped, listeners |-> bound, torn |-> torn,
            ok |-> FALSE, error |-> found.error, handler |-> NoHandler,
            steps |-> <<"createScope", "on", "getService">>]
      ELSE [scope |-> scoped, listeners |-> bound, torn |-> torn,
            ok |-> shaped.ok, error |-> shaped.error, handler |-> shaped.handler,
            steps |-> <<"createScope", "on", "getService", "classify">>]

\* toInjectedMiddleware: the name looked up for a string or a type reference.
ServiceName(DependentType) ==
  IF DependentType.kind = "string" THEN DependentType.name ELSE DependentType.name

\* scopedHandler.handle(req, res, next) of toInjectedMiddleware: a method call
\* on whatever getService returned, with no classification.
MethodCall(inst) ==
  LET shape == ServiceShape(inst.name) IN
  IF shape \in {"method", "functionWithHandle"}
  THEN [ok |-> TRUE, error |-> NoErr,
        handler |-> [callee |-> inst, member |-> "handle", this |-> inst, bound |-> FALSE]]
  ELSE [ok |-> FALSE, error |-> TypeError, handler |-> NoHandler]

\* The synchronous prefix of toInjectedMiddleware's handler (lines 31-38).
MiddlewareResolve(DependentType, req, res, fresh) ==
  LET scoped == createScope(ScopeContext(req, res), fresh)
      bound == ListenersAfterBind(listeners[res], scoped)
      torn == TeardownsAtBind(scoped)
      found == getService(scoped, ServiceName(DependentType))
      target == MethodCall(found.inst)
  IN  IF ~found.ok
      THEN [scope |-> scoped, listeners |-> bound, torn |-> torn,
            ok |-> FALSE, error |-> found.error, handler |-> NoHandler,
            steps |-> <<"createScope", "on", "getService">>]
      ELSE [scope |-> scoped, listeners |-> bound, torn |-> torn,
            ok |-> target.ok, error |-> target.error, handler |-> target.handler,
            steps |-> <<"createScope", "on", "getService">>]

\* An error adapter that calls the handler the way the standard adapter does.
ErrorHandlerArgs_Dropped(err, req, res, next) == <<req, res, next>>

\* instantiatedHandler(req, res, next) and instantiatedHandler(err, req, res, next)
HandlerArgs(req, res, next) == <<req, res, next>>
ErrorHandlerArgs(err, req, res, next) == <<err, req, res, next>>

\* ------------------------------------------------- running a wrapped handler
\* The synchronous part of the wrapped handler's body, called as
\* handler(...args) with the handler's this.
RunBody(h, args) ==
  LET b == Body(h.callee.name, h.member)
      owner == IF b.needsThis THEN h.this ELSE h.callee
      lost == b.needsThis /\ h.this = NoThis
      callsNext == ~b.suspends /\ IsNextArg(args, b.nextPos)
  IN  [incr |-> IF b.incr /\ ~lost THEN owner.scope ELSE NoScope,
       logged |-> IF b.log /\ ~lost THEN args[1] ELSE <<>>,
       nexts |-> IF ~lost /\ callsNext THEN <<args[b.nextPos]>> ELSE <<>>,
       body |-> CASE lost -> "rejected"
                  [] b.suspends -> "pending"
                  [] callsNext -> "resolved"
                  [] OTHER -> "rejected",
       error |-> IF lost \/ (~b.suspends /\ ~callsNext) THEN TypeError ELSE NoErr]

NoRun == [incr |-> NoScope, logged |-> <<>>, nexts |-> <<>>, body |-> "none", error |-> NoErr]

\* An exception raised in the adapter's async function before its await: no
\* try/catch surrounds resolveHandler, the returned promise rejects with it.
Thrown(error) == error

\* The state after the synchronous step of invocation i: g is what the
\* resolution acquired and returned or threw, args what the adapter passes on.
Commit(i, adapter, ident, r, e, g, args) ==
  LET run == IF g.ok THEN RunBody(g.handler, args) ELSE NoRun
      rec == [adapter |-> adapter, ident |-> ident, req |-> r, err |-> e,
              scope |-> g.scope,
              late |-> finished[r],
              endedAtGet |-> g.scope \in (ended \cup g.torn),
              lsn |-> g.listeners,
              steps |-> IF g.ok THEN Append(g.steps, "invoke") ELSE g.steps,
              handler |-> g.handler,
              args |-> IF g.ok THEN args ELSE <<>>,
              logged |-> run.logged,
              nexts |-> run.nexts,
              body |-> run.body,
              status |-> IF g.ok THEN "pending" ELSE "rejected",
              error |-> IF g.ok THEN run.error ELSE g.error,
              rejection |-> IF g.ok THEN NoErr ELSE Thrown(g.error)]
  IN  /\ Adapter(adapter, ident) \in built
      /\ scopeOf' = [scopeOf EXCEPT ![ScopeContext(r, r)] = g.scope]
      /\ nScopes' = IF g.scope > nScopes THEN g.scope ELSE nScopes
      /\ listeners' = [listeners EXCEPT ![r] = g.listeners]
      /\ counter' = IF run.incr # NoScope
                    THEN [counter EXCEPT ![run.incr] = @ + 1]
                    ELSE counter
      /\ invs' = Append(invs, rec)
      /\ ended' = ended \cup g.torn
      /\ endCalls' = [s \in ScopeIds |-> endCalls[s] + (IF s \in g.torn THEN 1 ELSE 0)]
      /\ UNCHANGED <<finished, built>>

\* ------------------------------------------------------------------ actions

\* The handler returned by toInjectedHandler(injector, middlewareName), invoked
\* by the pipeline for request r.
InvokeHandler(middlewareName, r, fresh) ==
  LET i == Len(invs) + 1 IN
  Commit(i, "handler", StringIdent(middlewareName), r, NoError,
         getHandler(middlewareName, r, r, fresh),
         HandlerArgs(ReqArg(r), ResArg(r), NextArg(i)))

\* The handler returned by toInjectedErrorHandler(injector, middlewareName),
\* invoked by the pipeline with error e for request r.
InvokeErrorHandler(middlewareName, e, r, fresh) ==
  LET i == Len(invs) + 1 IN
  Commit(i, "error", StringIdent(middlewareName), r, e,
         getHandler(middlewareName, r, r, fresh),
         ErrorHandlerArgs(ErrArg(e), ReqArg(r), ResArg(r), NextArg(i)))

\* The handler returned by toInjectedMiddleware(injector, DependentType).
InvokeMiddleware(DependentType, r, fresh) ==
  LET i == Len(invs) + 1 IN
  Commit(i, "middleware", DependentType, r, NoError,
         MiddlewareResolve(DependentType, r, r, fresh),
         HandlerArgs(ReqArg(r), ResArg(r), NextArg(i)))

\* A suspended wrapped handler resumes after its own await and calls the
\* continuation it was given.
BodyResume(i) ==
  /\ invs[i].body = "pending"
  /\ LET b == Body(invs[i].handler.callee.name, invs[i].handler.member)
         ok == IsNextArg(invs[i].args, b.nextPos)
     IN invs' = [invs EXCEPT ![i].body = IF ok THEN "resolved" ELSE "rejected",
                             ![i].nexts = IF ok THEN Append(@, invs[i].args[b.nextPos]) ELSE @,
                             ![i].error = IF ok THEN @ ELSE TypeError]
  /\ UNCHANGED <<scopeOf, nScopes, ended, endCalls, counter, listeners, finished, built>>

\* A handler call that is not awaited: the adapter goes on whatever the state
\* of the handler's promise.
Awaited_NotAwaited(body) == TRUE

\* `await instantiatedHandler(...)`: the adapter goes on only once the wrapped
\* handler's promise has settled.
Awaited(body) == body \in {"resolved", "rejected"}

\* A try/catch around the await that swallows the handler's rejection.
AdapterOutcome_Caught(body, error) == [status |-> "resolved", rejection |-> NoErr]

\* The await is the last statement of the adapter and stands in no try: a
\* rejection of the handler's promise rejects the adapter's with the same error,
\* a fulfilment fulfils it.
AdapterOutcome(body, error) ==
  [status |-> IF body = "rejected" THEN "rejected" ELSE "resolved",
   rejection |-> IF body = "rejected" THEN error ELSE NoErr]

\* The adapter's await on the wrapped handler's promise resumes: the adapter's
\* own promise settles the way the handler's did.
AdapterResume(i) ==
  /\ invs[i].status = "pending"
  /\ Awaited(invs[i].body)
  /\ LET out == AdapterOutcome(invs[i].body, invs[i].error)
     IN invs' = [invs EXCEPT ![i].status = out.status,
                             ![i].rejection = out.rejection]
  /\ UNCHANGED <<scopeOf, nScopes, ended, endCalls, counter, listeners, finished, built>>

\* How many of the listeners are bound to scope s.
RECURSIVE CountOf(_, _)
CountOf(seq, s) ==
  IF seq = <<>> THEN 0
  ELSE (IF Head(seq) = s THEN 1 ELSE 0) + CountOf(Tail(seq), s)

SeqRange(seq) == {seq[k] : k \in 1..Len(seq)}

\* The response's 'finish' event fires, once: every listener registered on it
\* runs, in order; each is endScope of the scope it was bound to.  The
\* container's teardown takes effect the first time.
Finish(r) ==
  /\ ~finished[r]
  /\ finished' = [finished EXCEPT ![r] = TRUE]
  /\ endCalls' = [s \in ScopeIds |-> endCalls[s] + CountOf(listeners[r], s)]
  /\ ended' = ended \cup SeqRange(listeners[r])
  /\ UNCHANGED <<scopeOf, nScopes, counter, listeners, invs, built>>

\* The pipeline with every kind of registration behind its adapters.
Next ==
  \/ /\ Len(invs) < MaxInv
     /\ \E n \in HandlerNames, r \in Requests : \E f \in FreshChoices(r) :
          InvokeHandler(n, r, f)
  \/ /\ Len(invs) < MaxInv
     /\ \E n \in ErrorHandlerNames, e \in Errors, r \in Requests : \E f \in FreshChoices(r) :
          InvokeErrorHandler(n, e, r, f)
  \/ /\ Len(invs) < MaxInv
     /\ \E d \in MiddlewareIdents, r \in Requests : \E f \in FreshChoices(r) :
          InvokeMiddleware(d, r, f)
  \/ \E i \in 1..Len(invs) : BodyResume(i)
  \/ \E i \in 1..Len(invs) : AdapterResume(i)
  \/ \E r \in Requests : Finish(r)

Spec == Init /\ [][Next]_vars

\* A longer chain of injected middlewares on the requests: the tests' scenario
\* (IncrementingMiddleware behind toInjectedHandler and toInjectedMiddleware),
\* a middleware that awaits, an error logger.
ChainNames == {"IncrementingMiddleware", "SlowMiddleware"}

ChainNext ==
  \/ /\ Len(invs) < MaxChain
     /\ \E n \in ChainNames, r \in Requests : \E f \in FreshChoices(r) :
          InvokeHandler(n, r, f)
  \/ /\ Len(invs) < MaxChain
     /\ \E r \in Requests : \E f \in FreshChoices(r) :
          InvokeErrorHandler("ErrorLoggingMiddleware", "errA", r, f)
  \/ /\ Len(invs) < MaxChain
     /\ \E r \in Requests : \E f \in FreshChoices(r) :
          InvokeMiddleware(TypeIdent("IncrementingMiddleware"), r, f)
  \/ \E i \in 1..Len(invs) : BodyResume(i)
  \/ \E i \in 1..Len(invs) : AdapterResume(i)
  \/ \E r \in Requests : Finish(r)

ChainSpec == Init /\ [][ChainNext]_vars

\* A call that builds an adapter and creates a scope on the spot.
ScopesAtBuild_Eager(kind, ident) == 1

\* The scopes a call of toInjectedHandler, toInjectedErrorHandler or
\* toInjectedMiddleware creates: the call declares the handler function and
\* returns it; createScope, response.on and getService stand in its body.
ScopesAtBuild(kind, ident) == 0

\* The application calls toInjectedHandler, toInjectedErrorHandler or
\* toInjectedMiddleware and keeps the handler it returns.
Build(kind, ident) ==
  /\ Adapter(kind, ident) \notin built
  /\ built' = built \cup {Adapter(kind, ident)}
  /\ nScopes' = nScopes + ScopesAtBuild(kind, ident)
  /\ UNCHANGED <<scopeOf, ended, endCalls, counter, listeners, finished, invs>>

\* An application that builds its adapters while requests are being served:
\* one adapter of each kind.
BuildNext ==
  \/ Build("handler", StringIdent("SlowMiddleware"))
  \/ Build("error", StringIdent("ErrorLoggingMiddleware"))
  \/ Build("middleware", TypeIdent("IncrementingMiddleware"))
  \/ /\ Len(invs) < MaxInv
     /\ \E r \in Requests : \E f \in FreshChoices(r) :
          InvokeHandler("SlowMiddleware", r, f)
  \/ /\ Len(invs) < MaxInv
     /\ \E e \in Errors, r \in Requests : \E f \in FreshChoices(r) :
          InvokeErrorHandler("ErrorLoggingMiddleware", e, r, f)
  \/ /\ Len(invs) < MaxInv
     /\ \E r \in Requests : \E f \in FreshChoices(r) :
          InvokeMiddleware(TypeIdent("IncrementingMiddleware"), r, f)
  \/ \E i \in 1..Len(invs) : BodyResume(i)
  \/ \E i \in 1..Len(invs) : AdapterResume(i)
  \/ \E r \in Requests : Finish(r)

BuildSpec == Unbuilt /\ [][BuildNext]_vars


\* ------------------------------------------- the adapters, statement by statement
\* The same adapters with every statement of the handler and of getHandler a
\* step of its own.  An invocation is "running" from its first statement until
\* it throws or reaches its await; a running invocation that is not parked at
\* an await holds the thread, and nothing else runs until it lets go.

\* An adapter that awaits the container when it acquires the scope.
YieldsAfter_AwaitScope(steps) == steps = <<"createScope">>

\* Whether the invocation gives up the thread after the statements it has
\* executed so far: getHandler is a plain function and the handler's only
\* await is the one on the wrapped handler's call, its last statement.
YieldsAfter(steps) == FALSE

Running(i) == invs[i].status = "running"
HoldsThread(i) == Running(i) /\ ~YieldsAfter(invs[i].steps)
ThreadFree == \A i \in 1..Len(invs) : ~HoldsThread(i)
MayStep(i) == Running(i) /\ \A j \in 1..Len(invs) : j # i => ~HoldsThread(j)

\* The pipeline calls the adapter; its first statement, createScope, runs.
StepEnter(adapter, ident, e, r, fresh) ==
  LET scoped == createScope(ScopeContext(r, r), fresh)
      rec == [adapter |-> adapter, ident |-> ident, req |-> r, err |-> e,
              scope |-> scoped, late |-> finished[r], endedAtGet |-> FALSE,
              lsn |-> listeners[r], steps |-> <<"createScope">>,
              handler |-> NoHandler, args |-> <<>>, logged |-> <<>>,
              nexts |-> <<>>, body |-> "none", status |-> "running",
              error |-> NoErr, rejection |-> NoErr]
  IN  /\ ThreadFree
      /\ Adapter(adapter, ident) \in built
      /\ scopeOf' = [scopeOf EXCEPT ![ScopeContext(r, r)] = scoped]
      /\ nScopes' = IF scoped > nScopes THEN scoped ELSE nScopes
      /\ invs' = Append(invs, rec)
      /\ UNCHANGED <<ended, endCalls, counter, listeners, finished, built>>

\* response.on('finish', scoped.endScope.bind(scoped))
StepOn(i) ==
  LET r == invs[i].req
      bound == ListenersAfterBind(listeners[r], invs[i].scope)
      torn == TeardownsAtBind(invs[i].scope)
  IN  /\ MayStep(i)
      /\ invs[i].steps = <<"createScope">>
      /\ listeners' = [listeners EXCEPT ![r] = bound]
      /\ ended' = ended \cup torn
      /\ endCalls' = [s \in ScopeIds |-> endCalls[s] + (IF s \in torn THEN 1 ELSE 0)]
      /\ invs' = [invs EXCEPT ![i].lsn = bound, ![i].steps = Append(@, "on")]
      /\ UNCHANGED <<scopeOf, nScopes, counter, finished, built>>

\* scoped.getService(name): returns the instance or throws.
StepGetService(i) ==
  LET found == getService(invs[i].scope, ServiceName(invs[i].ident))
  IN  /\ MayStep(i)
      /\ invs[i].steps = <<"createScope", "on">>
      /\ invs' = [invs EXCEPT ![i].steps = Append(@, "getService"),
                              ![i].endedAtGet = invs[i].scope \in ended,
                              ![i].status = IF found.ok THEN "running" ELSE "rejected",
                              ![i].error = found.error,
                              ![i].rejection = IF found.ok THEN NoErr ELSE Thrown(found.error)]
      /\ UNCHANGED <<scopeOf, nScopes, ended, endCalls, counter, listeners, finished, built>>

\* The shape tests of getHandler: returns the handler or throws.
StepClassify(i) ==
  LET shaped == Classify(Inst(invs[i].ident.name, invs[i].scope), invs[i].ident.name)
  IN  /\ MayStep(i)
      /\ invs[i].adapter \in {"handler", "error"}
      /\ invs[i].steps = <<"createScope", "on", "getService">>
      /\ invs' = [invs EXCEPT ![i].steps = Append(@, "classify"),
                              ![i].handler = shaped.handler,
                              ![i].status = IF shaped.ok THEN "running" ELSE "rejected",
                              ![i].error = shaped.error,
                              ![i].rejection = IF shaped.ok THEN NoErr ELSE Thrown(shaped.error)]
      /\ UNCHANGED <<scopeOf, nScopes, ended, endCalls, counter, listeners, finished, built>>

\* The call of the handler, whose body runs up to its first await; the adapter
\* then waits for the promise it returned.
StepCall(i) ==
  LET r == invs[i].req
      direct == invs[i].adapter = "middleware"
      target == IF direct THEN MethodCall(Inst(invs[i].ident.name, invs[i].scope))
                ELSE [ok |-> TRUE, error |-> NoErr, handler |-> invs[i].handler]
      args == IF invs[i].adapter = "error"
              THEN ErrorHandlerArgs(ErrArg(invs[i].err), ReqArg(r), ResArg(r), NextArg(i))
              ELSE HandlerArgs(ReqArg(r), ResArg(r), NextArg(i))
      run == IF target.ok THEN RunBody(target.handler, args) ELSE NoRun
  IN  /\ MayStep(i)
      /\ invs[i].steps = IF direct THEN <<"createScope", "on", "getService">>
                         ELSE <<"createScope", "on", "getService", "classify">>
      /\ counter' = IF run.incr # NoScope
                    THEN [counter EXCEPT ![run.incr] = @ + 1]
                    ELSE counter
      /\ invs' = [invs EXCEPT ![i].steps = IF target.ok THEN Append(@, "invoke") ELSE @,
                              ![i].handler = target.handler,
                              ![i].args = IF target.ok THEN args ELSE <<>>,
                              ![i].logged = run.logged,
                              ![i].nexts = run.nexts,
                              ![i].body = run.body,
                              ![i].status = IF target.ok THEN "pending" ELSE "rejected",
                              ![i].error = IF target.ok THEN run.error ELSE target.error,
                              ![i].rejection = IF target.ok THEN NoErr ELSE Thrown(target.error)]
      /\ UNCHANGED <<scopeOf, nScopes, ended, endCalls, listeners, finished, built>>

StepNames == {"IncrementingMiddleware", "SlowMiddleware", "incrementHandler", "Counter",
              "Unregistered"}

StepNext ==
  \/ /\ Len(invs) < MaxInv
     /\ \E n \in StepNames, r \in Requests : \E f \in FreshChoices(r) :
          StepEnter("handler", StringIdent(n), NoError, r, f)
  \/ /\ Len(invs) < MaxInv
     /\ \E r \in Requests : \E f \in FreshChoices(r) :
          StepEnter("error", StringIdent("ErrorLoggingMiddleware"), "errA", r, f)
  \/ /\ Len(invs) < MaxInv
     /\ \E d \in MiddlewareIdents, r \in Requests : \E f \in FreshChoices(r) :
          StepEnter("middleware", d, NoError, r, f)
  \/ \E i \in 1..Len(invs) : StepOn(i)
  \/ \E i \in 1..Len(invs) : StepGetService(i)
  \/ \E i \in 1..Len(invs) : StepClassify(i)
  \/ \E i \in 1..Len(invs) : StepCall(i)
  \/ ThreadFree /\ \E i \in 1..Len(invs) : BodyResume(i)
  \/ ThreadFree /\ \E i \in 1..Len(invs) : AdapterResume(i)
  \/ ThreadFree /\ \E r \in Requests : Finish(r)

StepSpec == Init /\ [][StepNext]_vars


\* ------------------------------------------------------------------ claims

Invs == 1..Len(invs)

\* The adapter invocations that acquired scope s before the 'finish' event of
\* their response fired.
EarlyOn(s) == {i \in Invs : invs[i].scope = s /\ ~invs[i].late}

\* C1, as stated: once 'finish' has fired, the endScope of the scope of every
\* adapter invocation that ran before it has been invoked exactly once.
C1_Original ==
  \A i \in Invs :
    (finished[invs[i].req] /\ ~invs[i].late) => endCalls[invs[i].scope] = 1

\* C1, amended: endScope of a scope is not invoked before 'finish' fires, and
\* when it fires it is invoked once per adapter invocation that ran against
\* that request and response before the event (once for one invocation, N
\* times for N).
C1_EndScopePerInvocation ==
  \A s \in ScopeIds :
    endCalls[s] = Cardinality({i \in EarlyOn(s) : finished[invs[i].req]})

\* Two adapters, of different kinds, ran for a request before its 'finish'
\* fired, and endScope of their scope has run twice.
C1_Witness ==
  \E i, j \in Invs :
    /\ i # j /\ invs[i].req = invs[j].req /\ invs[i].adapter # invs[j].adapter
    /\ ~invs[i].late /\ ~invs[j].late /\ finished[invs[i].req]
    /\ invs[i].scope = invs[j].scope /\ endCalls[invs[i].scope] = 2

\* C2: two adapter invocations with the same request, made before that
\* request's teardown, work on the same scope; two with different requests
\* work on different scopes, however their handling interleaves.
C2_ScopePerRequest ==
  \A i, j \in Invs :
    /\ (invs[i].req = invs[j].req /\ ~invs[i].late /\ ~invs[j].late)
         => invs[i].scope = invs[j].scope
    /\ invs[i].req # invs[j].req => invs[i].scope # invs[j].scope

\* Three invocations are in flight at once: two share a request and a scope,
\* the third is for the other request and has a scope of its own.
C2_Witness ==
  \E i, j, k \in Invs :
    /\ i < j /\ invs[i].req = invs[j].req /\ invs[k].req # invs[i].req
    /\ i < k /\ k < j
    /\ \A m \in {i, j, k} : invs[m].status = "pending" /\ ~invs[m].late
    /\ invs[i].scope = invs[j].scope /\ invs[k].scope # invs[i].scope

\* injector.createScope(request).getService('Counter').getValue(): the value of
\* the request's Counter; one made on first resolution starts at 0.
CounterValue(r) == IF scopeOf[r] = NoScope THEN 0 ELSE counter[scopeOf[r]]

\* The invocations of an injected IncrementingMiddleware for request r.
Increments(r) ==
  {i \in Invs : /\ invs[i].req = r
                /\ invs[i].ident.name = "IncrementingMiddleware"
                /\ invs[i].adapter \in {"handler", "middleware"}}

\* C3: while a request's scope lives, its Counter holds the number of injected
\* IncrementingMiddleware invocations made for that request, and so 0 for a
\* request none ran for: no increment shows in another request's Counter.
C3_CounterPerRequest ==
  \A r \in Requests : ~finished[r] => CounterValue(r) = Cardinality(Increments(r))

\* Two invocations for request A, through toInjectedHandler and through
\* toInjectedMiddleware, left its Counter at 2; none ran for B, whose Counter
\* reads 0.
C3_Witness ==
  /\ Cardinality(Increments("A")) = 2
  /\ \E i, j \in Increments("A") : invs[i].adapter # invs[j].adapter
  /\ \A i \in Invs : invs[i].req = "A"
  /\ ~finished["A"] /\ ~finished["B"]
  /\ CounterValue("A") = 2 /\ CounterValue("B") = 0


IsPrefix(s, full) == Len(s) <= Len(full) /\ \A k \in 1..Len(s) : s[k] = full[k]
NotClassify(step) == step # "classify"

\* C4: every adapter invocation acquires the scope, registers endScope of that
\* scope as a 'finish' listener on the response, looks the service up and only
\* then invokes the handler, in that order: whenever the lookup was reached,
\* and so whenever the wrapped handler's body started, the listener was on the
\* response already.
C4_ListenerBeforeHandler ==
  \A i \in Invs :
    /\ invs[i].scope # NoScope
    /\ CountOf(invs[i].lsn, invs[i].scope) >= 1
    /\ Len(invs[i].steps) >= 3
    /\ IsPrefix(SelectSeq(invs[i].steps, NotClassify),
                <<"createScope", "on", "getService", "invoke">>)
    /\ invs[i].body # "none" <=> invs[i].steps[Len(invs[i].steps)] = "invoke"

\* A wrapped handler's body ran on a response that carries the teardown
\* listener of its scope, and another invocation failed at the lookup with its
\* listener registered all the same.
C4_Witness ==
  \E i, j \in Invs :
    /\ invs[i].body = "resolved" /\ invs[i].steps[Len(invs[i].steps)] = "invoke"
    /\ CountOf(invs[i].lsn, invs[i].scope) >= 1
    /\ invs[j].error.type = "ServiceNotFound" /\ invs[j].body = "none"
    /\ CountOf(listeners[invs[j].req], invs[j].scope) >= 1

\* C5, as stated (in its weakest reading): endScope has not run for a request
\* while the wrapped handler of an adapter invocation for that request is
\* still executing.
C5_Original ==
  \A i \in Invs : endCalls[invs[i].scope] > 0 => invs[i].body # "pending"

\* C5, amended: endScope of a request's scope runs, and the scope is torn
\* down, only once the 'finish' event of that request's response has fired.
C5_TeardownOnlyAfterFinish ==
  \A s \in ScopeIds :
    (endCalls[s] > 0 \/ s \in ended) =>
      \E i \in EarlyOn(s) : finished[invs[i].req]

\* The scope of a request has been torn down while an injected handler for
\* that request, invoked before 'finish', is still executing.
C5_Witness ==
  \E i \in Invs :
    /\ ~invs[i].late /\ invs[i].body = "pending" /\ invs[i].status = "pending"
    /\ endCalls[invs[i].scope] > 0 /\ invs[i].scope \in ended

\* C6, as stated: every lookup and handler invocation the core makes for a
\* request is on a scope whose endScope has not run, and all of them use the
\* same scope.
C6_Original ==
  \A i, j \in Invs :
    /\ ~invs[i].endedAtGet
    /\ invs[i].req = invs[j].req => invs[i].scope = invs[j].scope

\* C6, amended: every lookup and handler invocation the core makes for a
\* request before the 'finish' event of its response is on a scope whose
\* endScope has not run, the handler comes from that scope, and all of them
\* use the same scope.
C6_ScopeValidBeforeFinish ==
  \A i \in Invs :
    ~invs[i].late =>
      /\ ~invs[i].endedAtGet
      /\ invs[i].handler # NoHandler => invs[i].handler.callee.scope = invs[i].scope
      /\ \A j \in Invs :
           (invs[j].req = invs[i].req /\ ~invs[j].late) => invs[j].scope = invs[i].scope

\* A chain of two injected handlers ran for one request on one live scope, the
\* first settled and the second still running.
C6_Witness ==
  \E i, j \in Invs :
    /\ i < j /\ invs[i].req = invs[j].req /\ ~finished[invs[i].req]
    /\ invs[i].status = "resolved" /\ invs[j].body = "pending"
    /\ invs[i].scope = invs[j].scope /\ invs[i].scope \notin ended
    /\ invs[j].handler.callee.scope = invs[i].scope


\* The arguments the pipeline gave invocation i.
PipelineArgs(i) ==
  IF invs[i].adapter = "error"
  THEN <<ErrArg(invs[i].err), ReqArg(invs[i].req), ResArg(invs[i].req), NextArg(i)>>
  ELSE <<ReqArg(invs[i].req), ResArg(invs[i].req), NextArg(i)>>

\* The instance registered under the name invocation i looks up, in its scope.
Registration(i) == Inst(invs[i].ident.name, invs[i].scope)

ViaGetHandler(i) == invs[i].adapter \in {"handler", "error"}

\* C7: when the registered instance is a function, with or without a handle
\* property of its own, toInjectedHandler and toInjectedErrorHandler call that
\* very function, unwrapped and unbound, with exactly the arguments the
\* pipeline passed.
C7_CallableUnchanged ==
  \A i \in Invs :
    (ViaGetHandler(i) /\ ServiceShape(invs[i].ident.name) \in {"function", "functionWithHandle"})
      => /\ invs[i].handler =
              [callee |-> Registration(i), member |-> "self", this |-> NoThis, bound |-> FALSE]
         /\ invs[i].args = PipelineArgs(i)

\* The error adapter called a registered function that also carries a handle
\* property, and the standard adapter called a plain registered function.
C7_Witness ==
  \E i, j \in Invs :
    /\ invs[i].adapter = "error" /\ invs[i].ident.name = "hybridHandler"
    /\ invs[i].handler.member = "self" /\ invs[i].args[1] = ErrArg("errB")
    /\ invs[j].adapter = "handler" /\ invs[j].ident.name = "incrementHandler"
    /\ invs[j].nexts = <<NextArg(j)>>

\* instance.handle(...args) called directly on the instance.
DirectHandle(inst, args) ==
  RunBody([callee |-> inst, member |-> "handle", this |-> inst, bound |-> FALSE], args)

\* C8: when the registered instance is an object with a callable handle, the
\* handler the core invokes is its handle with this bound to the instance: it
\* logs, calls the continuation and settles as instance.handle(...) called
\* directly would, and what it does to the instance's dependencies is seen by
\* the next invocation on the same scope.
C8_HandleBound ==
  /\ \A i \in Invs :
       (ViaGetHandler(i) /\ ServiceShape(invs[i].ident.name) = "method")
         => LET direct == DirectHandle(Registration(i), PipelineArgs(i)) IN
            /\ invs[i].handler.callee = Registration(i)
            /\ invs[i].handler.member = "handle"
            /\ invs[i].handler.this = Registration(i)
            /\ invs[i].logged = direct.logged
            /\ direct.body # "pending"
                 => (invs[i].body = direct.body /\ invs[i].nexts = direct.nexts
                     /\ invs[i].error = direct.error)
  /\ \A s \in ScopeIds :
       counter[s] >= Cardinality({i \in Invs : /\ invs[i].scope = s
                                              /\ invs[i].adapter = "handler"
                                              /\ invs[i].ident.name = "IncrementingMiddleware"})

\* IncrementingMiddleware.handle ran twice through toInjectedHandler on one
\* scope, bound to its instance, and the second call saw the first's increment.
C8_Witness ==
  \E i, j \in Invs :
    /\ i < j /\ invs[i].scope = invs[j].scope
    /\ \A m \in {i, j} :
         /\ invs[m].adapter = "handler" /\ invs[m].ident.name = "IncrementingMiddleware"
         /\ invs[m].handler.this = Registration(m) /\ invs[m].body = "resolved"
    /\ counter[invs[i].scope] = 2

\* C9, as stated: whenever the registered instance is neither a function nor
\* an object with a callable handle, toInjectedHandler and
\* toInjectedErrorHandler fail with the invalid-middleware error whose message
\* quotes the identifier, no handler is invoked and the continuation is not
\* called.
C9_Original ==
  \A i \in Invs :
    (ViaGetHandler(i) /\ ServiceShape(invs[i].ident.name) \in {"plain", "null"})
      => /\ invs[i].error = InvalidHandlerShape(invs[i].ident.name)
         /\ invs[i].status = "rejected"
         /\ invs[i].handler = NoHandler /\ invs[i].body = "none" /\ invs[i].nexts = <<>>

\* C9 for the instances that are objects: the part of the claim the code meets.
C9_HoldsForObjects ==
  \A i \in Invs :
    (ViaGetHandler(i) /\ ServiceShape(invs[i].ident.name) = "plain")
      => /\ invs[i].error = InvalidHandlerShape(invs[i].ident.name)
         /\ invs[i].status = "rejected"
         /\ invs[i].handler = NoHandler /\ invs[i].body = "none" /\ invs[i].nexts = <<>>

\* C10: toInjectedErrorHandler calls the handler with the error it received
\* first, then the request, the response and the continuation; the
\* handle-bearing ErrorLoggingMiddleware logs exactly that error and calls the
\* continuation exactly once; the core calls no continuation itself, so none
\* is called when no handler body ran.
C10_ErrorPassedFirst ==
  \A i \in Invs :
    /\ invs[i].adapter = "error" =>
         /\ invs[i].handler # NoHandler =>
              invs[i].args = <<ErrArg(invs[i].err), ReqArg(invs[i].req),
                               ResArg(invs[i].req), NextArg(i)>>
         /\ invs[i].ident.name = "ErrorLoggingMiddleware" =>
              /\ invs[i].logged = ErrArg(invs[i].err)
              /\ invs[i].nexts = <<NextArg(i)>>
              /\ invs[i].body = "resolved"
    /\ invs[i].body = "none" => (invs[i].nexts = <<>> /\ invs[i].logged = <<>>)
    /\ Len(invs[i].nexts) <= 1

\* The error logger ran behind the error adapter for two different errors and
\* logged each; each continuation was called once.
C10_Witness ==
  \E i, j \in Invs :
    /\ invs[i].adapter = "error" /\ invs[j].adapter = "error"
    /\ invs[i].ident.name = "ErrorLoggingMiddleware"
    /\ invs[j].ident.name = "ErrorLoggingMiddleware"
    /\ invs[i].logged = ErrArg("errA") /\ invs[j].logged = ErrArg("errB")
    /\ invs[i].nexts = <<NextArg(i)>> /\ invs[j].nexts = <<NextArg(j)>>
    /\ invs[i].status = "resolved"

\* The error the resolution of invocation i raises, from the registration
\* alone: the lookup's for a name that is not registered, else the
\* classification's (handler adapters) or the member call's (type-directed).
ResolutionError(i) ==
  LET name == invs[i].ident.name
      found == getService(invs[i].scope, name)
  IN  IF ~found.ok THEN found.error
      ELSE IF ViaGetHandler(i) THEN Classify(found.inst, name).error
      ELSE MethodCall(found.inst).error

AsHandler(i) ==
  LET name == invs[i].ident.name
      found == getService(invs[i].scope, name)
  IN  IF found.ok THEN Classify(found.inst, name)
      ELSE [ok |-> FALSE, error |-> found.error, handler |-> NoHandler]

\* Invocation i of toInjectedMiddleware did what toInjectedHandler does with
\* the same name: the same steps but for the classification, the same function
\* called on the same receiver with the same arguments, or the same failure.
SameAsHandler(i) ==
  LET h == AsHandler(i) IN
  /\ SelectSeq(invs[i].steps, NotClassify)
       = IF h.ok THEN <<"createScope", "on", "getService", "invoke">>
                 ELSE <<"createScope", "on", "getService">>
  /\ h.ok => /\ invs[i].handler # NoHandler
             /\ invs[i].handler.callee = h.handler.callee
             /\ invs[i].handler.member = h.handler.member
             /\ invs[i].handler.this = h.handler.this
             /\ invs[i].args = PipelineArgs(i)
  /\ ~h.ok => /\ invs[i].handler = NoHandler
              /\ invs[i].error = h.error
              /\ invs[i].status = "rejected"

\* C12, as stated: toInjectedMiddleware looks up the string it was given or
\* the name of the type it was given, and for every shape of the registered
\* instance (callable, handle-bearing, neither) goes through the same steps to
\* the same outcome as toInjectedHandler called with that name.
C12_Original ==
  \A i \in Invs :
    invs[i].adapter = "middleware"
      => /\ ServiceName(invs[i].ident) = invs[i].ident.name
         /\ SameAsHandler(i)

\* C12 for the instances that are objects with a callable handle, and for
\* names that are not registered: the part of the claim the code meets.
C12_HoldsForHandleObjects ==
  \A i \in Invs :
    (invs[i].adapter = "middleware"
       /\ ServiceShape(invs[i].ident.name) \in {"method", "unregistered"})
      => /\ ServiceName(invs[i].ident) = invs[i].ident.name
         /\ SameAsHandler(i)

\* The invocations made for request r, in order.
InvsOf(r) == {i \in Invs : invs[i].req = r}

\* C13: building an adapter touches neither the container nor a response.
\* Whatever has been built, every scope the container holds, every listener on
\* a response and every handler run belongs to an invocation of an adapter
\* that was built: a request no adapter was invoked for has no scope and no
\* listener, and its scope comes into being with its first invocation, whose
\* listener is the first on the response.
C13_BuildingHasNoEffect ==
  /\ \A i \in Invs : Adapter(invs[i].adapter, invs[i].ident) \in built
  /\ \A s \in 1..nScopes : \E i \in Invs : invs[i].scope = s
  /\ \A s \in ScopeIds :
       (s > nScopes \/ \A i \in Invs : invs[i].scope = s => invs[i].body = "none")
         => counter[s] = 0
  /\ \A r \in Requests :
       /\ InvsOf(r) = {} => (scopeOf[r] = NoScope /\ listeners[r] = <<>>)
       /\ InvsOf(r) # {}
            => /\ scopeOf[r] # NoScope
               /\ \E i \in InvsOf(r) :
                    /\ \A j \in InvsOf(r) : i <= j
                    /\ invs[i].lsn = <<invs[i].scope>>
               /\ Len(listeners[r]) = Cardinality(InvsOf(r))

\* The three adapters are built and none was invoked yet: there is no scope,
\* no listener and no count.
C13_Witness ==
  /\ Cardinality(built) = 3
  /\ invs = <<>>
  /\ nScopes = 0
  /\ \A r \in Requests : scopeOf[r] = NoScope /\ listeners[r] = <<>>
  /\ \A s \in ScopeIds : counter[s] = 0 /\ endCalls[s] = 0

\* C14: every adapter invocation acquires the scope once, registers one
\* 'finish' listener and looks the service up once, whatever the invocations
\* before it did: the N-th invocation on a request finds N - 1 listeners on
\* the response and leaves N, the last one bound to its own scope; the
\* invocations made before 'finish' all hold the same scope, so their
\* listeners are all bound to it.
C14_OnePerInvocation ==
  /\ \A i \in Invs :
       /\ CountOf(invs[i].steps, "createScope") = 1
       /\ CountOf(invs[i].steps, "on") = 1
       /\ CountOf(invs[i].steps, "getService") = 1
       /\ Len(invs[i].lsn) = Cardinality({j \in InvsOf(invs[i].req) : j <= i})
       /\ invs[i].lsn[Len(invs[i].lsn)] = invs[i].scope
       /\ IsPrefix(invs[i].lsn, listeners[invs[i].req])
  /\ \A r \in Requests :
       /\ Len(listeners[r]) = Cardinality(InvsOf(r))
       /\ \A i, j \in InvsOf(r) :
            (~invs[i].late /\ ~invs[j].late) => invs[i].scope = invs[j].scope
       /\ ~finished[r] => \A k \in 1..Len(listeners[r]) : listeners[r][k] = scopeOf[r]

\* Three invocations on one request whose 'finish' has not fired: three
\* listeners on its response, all bound to the one scope, three lookups.
C14_Witness ==
  \E r \in Requests :
    /\ ~finished[r]
    /\ Cardinality(InvsOf(r)) = 3
    /\ listeners[r] = <<scopeOf[r], scopeOf[r], scopeOf[r]>>
    /\ \A i \in InvsOf(r) : CountOf(invs[i].steps, "getService") = 1

\* C15: the promise an adapter returns settles only after the promise of the
\* handler it called has settled: while the wrapped handler is still running
\* the adapter is pending, and an adapter that fulfilled called a handler that
\* had fulfilled by then, continuation call included.
C15_SettlesAfterHandler ==
  \A i \in Invs :
    /\ invs[i].body = "pending" => invs[i].status = "pending"
    /\ invs[i].status = "resolved" => invs[i].body = "resolved"
    /\ (invs[i].status = "rejected" /\ invs[i].handler # NoHandler)
         => invs[i].body = "rejected"

\* A handler that awaits is still running and its adapter is pending, while
\* another one has resumed, called its continuation and fulfilled, and its
\* adapter fulfilled after it.
C15_Witness ==
  \E i, j \in Invs :
    /\ invs[i].ident.name = "SlowMiddleware" /\ invs[j].ident.name = "SlowMiddleware"
    /\ invs[i].body = "pending" /\ invs[i].status = "pending"
    /\ invs[j].body = "resolved" /\ invs[j].status = "resolved"
    /\ invs[j].nexts = <<NextArg(j)>>

\* C16: the core invokes endScope through the 'finish' event of the response
\* and through nothing else.  Every step that invokes the endScope of a scope,
\* or in which a teardown takes effect, is a step in which a 'finish' event
\* fires, and the scopes it reaches are those its listeners are bound to; so
\* as long as the 'finish' event of a response has not fired, no endScope was
\* invoked for the scope of its request, however its handlers ended.
C16_TeardownOnlyThroughFinish ==
  [][(endCalls' # endCalls \/ ended' # ended)
       => \E r \in Requests :
            /\ ~finished[r] /\ finished'[r]
            /\ \A s \in ScopeIds :
                 endCalls'[s] # endCalls[s] => s \in SeqRange(listeners[r])]_vars

\* The 'finish' event of a response has not fired; a handler on its request
\* fulfilled, another one failed to resolve and its adapter rejected; no
\* endScope was invoked for the scope of the request.
C16_Witness ==
  \E i, j \in Invs :
    /\ invs[i].req = invs[j].req /\ ~finished[invs[i].req]
    /\ invs[i].status = "resolved"
    /\ invs[j].status = "rejected" /\ invs[j].body = "none"
    /\ endCalls[invs[i].scope] = 0 /\ invs[i].scope \notin ended
    /\ invs[j].scope = invs[i].scope

\* C17: an adapter invocation whose resolution failed has acquired the scope
\* of the request and put its teardown listener on the response before it
\* failed, and both stay.  While 'finish' has not fired the scope is the
\* request's live scope with no endScope invoked; the invocations that follow
\* on the same request before 'finish' hold the same scope; once 'finish' has
\* fired the scope was ended through the listener the failed invocation left.
C17_FailedResolutionKeepsScope ==
  \A i \in Invs :
    invs[i].body = "none"
      => /\ invs[i].scope # NoScope
         /\ IsPrefix(<<"createScope", "on", "getService">>, invs[i].steps)
         /\ invs[i].lsn[Len(invs[i].lsn)] = invs[i].scope
         /\ IsPrefix(invs[i].lsn, listeners[invs[i].req])
         /\ ~invs[i].late
              => /\ ~finished[invs[i].req]
                      => /\ scopeOf[invs[i].req] = invs[i].scope
                         /\ invs[i].scope \notin ended
                         /\ endCalls[invs[i].scope] = 0
                 /\ finished[invs[i].req]
                      => /\ invs[i].scope \in ended
                         /\ endCalls[invs[i].scope]
                              >= Cardinality({j \in InvsOf(invs[i].req) :
                                                j <= i /\ invs[j].scope = invs[i].scope})
                 /\ \A j \in InvsOf(invs[i].req) :
                      (j > i /\ ~invs[j].late) => invs[j].scope = invs[i].scope

\* An invocation failed to resolve its service; a handler invoked next on the
\* same request ran on the same scope; the 'finish' event then ended that scope
\* through the listeners of both.
C17_Witness ==
  \E i, j \in Invs :
    /\ i < j /\ invs[i].req = invs[j].req
    /\ invs[i].adapter = "handler"
    /\ invs[i].error = ServiceNotFound(invs[i].ident.name)
    /\ invs[j].body = "resolved" /\ invs[j].scope = invs[i].scope
    /\ counter[invs[j].scope] = 1
    /\ ~invs[j].late /\ finished[invs[i].req]
    /\ invs[i].scope \in ended /\ endCalls[invs[i].scope] = 2

\* Invocation i takes the step, and nothing else happens in it: no other
\* invocation starts or moves, no 'finish' event fires.
OwnStep(i) ==
  /\ invs'[i] # invs[i]
  /\ Len(invs') = Len(invs)
  /\ \A j \in Invs : j # i => invs'[j] = invs[j]
  /\ finished' = finished

\* C18: from acquiring the scope to the start of the wrapped handler's body an
\* adapter invocation is one synchronous stretch.  While an invocation is
\* between its createScope and the call of its handler (or the throw that ends
\* it), every step taken is its own next statement: no other invocation, of
\* this or another request, starts or resumes, and no 'finish' event fires.
\* So at most one invocation is in that stretch, an invocation that started
\* before 'finish' looks its service up in a scope that has not been ended,
\* the listeners it finds on the response when it registers its own are those
\* of the invocations before it, and an adapter is suspended only once its
\* handler's body has started, at the await on the handler's promise.
C18_SynchronousUntilAwait ==
  /\ [](/\ Cardinality({i \in Invs : Running(i)}) <= 1
        /\ \A i \in Invs :
             /\ invs[i].status = "pending"
                  => /\ invs[i].body # "none"
                     /\ invs[i].steps[Len(invs[i].steps)] = "invoke"
             /\ Len(invs[i].steps) >= 2
                  => Len(invs[i].lsn)
                       = Cardinality({j \in InvsOf(invs[i].req) : j <= i})
             /\ ~invs[i].late => ~invs[i].endedAtGet
             /\ Running(i) => i = Len(invs))
  /\ [][\A i \in Invs : Running(i) => OwnStep(i)]_vars

\* One invocation stands between registering its listener and looking its
\* service up, after an earlier one on the same request went through to its
\* await and is suspended there with its handler's body started.
C18_Witness ==
  \E i, j \in Invs :
    /\ i < j /\ invs[i].req = invs[j].req
    /\ invs[i].status = "pending" /\ invs[i].body = "pending"
    /\ Running(j) /\ invs[j].steps = <<"createScope", "on">>
    /\ invs[j].lsn = <<invs[i].scope, invs[j].scope>>
    /\ ~finished[invs[j].req]

====
